---- MODULE Spec2Model ----
(***************************************************************************)
(* Visit-counter badge: the request handler of api/counter.js with its     *)
(* in-memory admission control (rateLimitMap, shouldRateLimit) and the     *)
(* read-modify-write counter of lib/storage.js (getCount, setCount,        *)
(* increment).  A handler is suspended at every await on the storage       *)
(* medium, so one request is a sequence of atomic steps:                   *)
(*   Start      lines 93-94 and the synchronous prefix of the storage call *)
(*   ReadOK /   the backend read of getCount() completes or throws, and    *)
(*   ReadFail   the handler runs on to its next await or to its response   *)
(*   WriteOK /  the backend write of setCount(next) completes or throws,   *)
(*   WriteFail  and the handler runs on to its response                    *)
(* Steps of different requests interleave freely (Spec).                   *)
(*                                                                         *)
(* SpecStore runs the storage functions one call at a time on the three    *)
(* access paths of lib/storage.js (counter.json, the KV SDK, the KV REST   *)
(* API) with the texts they write and parse, the answers the medium can    *)
(* give, and a process.env that changes between calls.                     *)
(***************************************************************************)
EXTENDS Integers, FiniteSets, Sequences, TLC

\* ------------------------------------------------------------------ bounds
NReq == 3            \* requests handled by the process in one behaviour
MaxInFlight == 2     \* requests suspended on the storage medium at once
MaxCount == 2        \* largest counter value passed to setCount

\* --------------------------------------------------------------- constants
RATE_LIMIT_WINDOW == 60 * 1000

NoRecord == -1       \* rateLimitMap.get(ip) === undefined
NoValue == -1        \* no counter stored (missing file, absent key)

NaN == -2            \* parseInt of a text that does not start with a digit
Err == -3            \* the call threw

IPs == {"1.2.3.4", "5.6.7.8"}
Reqs == 1..NReq
\* the values Date.now() takes: the epoch, a first instant t0, the last
\* millisecond inside the window of t0 and the first one after it
Times == {0, 10000, 69999, 70000}

\* ------------------------------------------------------------------- state
VARIABLES
  clock,         \* Date.now()
  rateLimitMap,  \* ip -> timestamp of the last admitted request, or NoRecord
  stored,        \* the persisted counter, NoValue when nothing is stored
  stored0,       \* the persisted counter when the process started
  overlapped,    \* some request started while another was still in flight
  pc,            \* position of each handler
  ip,            \* clientIP of each request
  now,           \* Date.now() read by shouldRateLimit for the request
  seen,          \* lastRequest read by shouldRateLimit for the request
  limited,       \* isRateLimited
  call,          \* the storage function the handler called
  current,       \* increment(): value returned by getCount()
  count,         \* value the storage call returned to the handler
  writes,        \* backend writes performed on behalf of the request
  status,        \* HTTP status of the response, 0 while there is none
  body,          \* count rendered into the badge that was sent
  env,           \* which URL+token pairs process.env holds
  sdkInstalled,  \* require('@vercel/kv') succeeds
  kv,            \* storage.js `kv` is not null
  counterFile,   \* content of counter.json
  kvValue,       \* what the durable store holds under COUNTER_KEY
  bodyDecoded,   \* the durable store JSON-decodes the body of POST /set
  last           \* the last storage call: its route, answer and result

handlerVars == <<clock, rateLimitMap, stored, stored0, overlapped, pc, ip, now,
                 seen, limited, call, current, count, writes, status, body>>

storeVars == <<env, sdkInstalled, kv, counterFile, kvValue, bodyDecoded, last>>

vars == <<clock, rateLimitMap, stored, stored0, overlapped, pc, ip, now, seen,
          limited, call, current, count, writes, status, body,
          env, sdkInstalled, kv, counterFile, kvValue, bodyDecoded, last>>

\* ------------------------------------------------------- api/counter.js

\* `!lastRequest`: undefined and the number 0 are both falsy
Falsy(lastRequest) == lastRequest = NoRecord \/ lastRequest = 0

\* shouldRateLimit that forgets to record the first request of an identifier
shouldRateLimit_noFirstRecord(m, i, t) ==
  LET lastRequest == m[i] IN
  IF Falsy(lastRequest)
    THEN [limited |-> FALSE, map |-> m]
    ELSE IF t - lastRequest < RATE_LIMIT_WINDOW
      THEN [limited |-> TRUE, map |-> m]
      ELSE [limited |-> FALSE, map |-> [m EXCEPT ![i] = t]]

\* shouldRateLimit with `<=` in place of `<` in the window test
shouldRateLimit_inclusive(m, i, t) ==
  LET lastRequest == m[i] IN
  IF Falsy(lastRequest)
    THEN [limited |-> FALSE, map |-> [m EXCEPT ![i] = t]]
    ELSE IF t - lastRequest <= RATE_LIMIT_WINDOW
      THEN [limited |-> TRUE, map |-> m]
      ELSE [limited |-> FALSE, map |-> [m EXCEPT ![i] = t]]

\* shouldRateLimit keeping one timestamp for all identifiers
shouldRateLimit_shared(m, i, t) ==
  LET lastRequest == m[i] IN
  IF Falsy(lastRequest)
    THEN [limited |-> FALSE, map |-> [j \in DOMAIN m |-> t]]
    ELSE IF t - lastRequest < RATE_LIMIT_WINDOW
      THEN [limited |-> TRUE, map |-> m]
      ELSE [limited |-> FALSE, map |-> [j \in DOMAIN m |-> t]]

\* shouldRateLimit that records the request only once the window has passed
shouldRateLimit_lateRecord(m, i, t) ==
  LET lastRequest == m[i] IN
  IF lastRequest = NoRecord
    THEN [limited |-> FALSE, map |-> m]
    ELSE IF Falsy(lastRequest)
      THEN [limited |-> FALSE, map |-> [m EXCEPT ![i] = t]]
      ELSE IF t - lastRequest < RATE_LIMIT_WINDOW
        THEN [limited |-> TRUE, map |-> m]
        ELSE [limited |-> FALSE, map |-> [m EXCEPT ![i] = t]]

\* shouldRateLimit(ip) with Date.now() = t on the map m: the decision and
\* the map it leaves behind
shouldRateLimit(m, i, t) ==
  LET lastRequest == m[i] IN
  IF Falsy(lastRequest)
    THEN [limited |-> FALSE, map |-> [m EXCEPT ![i] = t]]
    ELSE IF t - lastRequest < RATE_LIMIT_WINDOW
      THEN [limited |-> TRUE, map |-> m]
      ELSE [limited |-> FALSE, map |-> [m EXCEPT ![i] = t]]

\* a handler that increments whatever the decision
storageCall_always(isRateLimited) == "increment"

\* handler lines 96-103: the storage function called for the decision
storageCall(isRateLimited) == IF isRateLimited THEN "getCount" ELSE "increment"

\* ------------------------------------------------------- lib/storage.js

\* getCount(): parseInt(value || '0', 10) of what the backend holds
getCount(s) == IF s = NoValue THEN 0 ELSE s

\* a write that adds one to whatever the backend holds at the write
setCount_atomic(s, n) == getCount(s) + 1

\* setCount(count): the backend holds exactly count afterwards
setCount(s, n) == n

\* an increment that adds two
incrementNext_double(cur) == cur + 2

\* increment(): const next = current + 1
incrementNext(cur) == cur + 1

\* ------------------------------------- lib/storage.js, backend by backend
\* Texts and JSON values are pairs <<kind, n>>:
\*   <<"absent", 0>>     null / undefined / no file / no key
\*   <<"digits", n>>     the number n or its decimal text
\*   <<"quoted", n>>     the decimal text of n inside double quotes
\*   <<"nan", 0>>        the text NaN
\*   <<"quotednan", 0>>  the text NaN inside double quotes
\* and for counter.json:
\*   <<"doc", n>>        { "count": n }
\*   <<"nocount", 0>>    a JSON document without a usable count: {} or
\*                       { "count": null }
\*   <<"unparsable", 0>> text JSON.parse rejects
\* Numbers are naturals and NaN; Err stands for a thrown error.

Envs == {"none", "kv", "custom", "both"}

\* KV_REST_API_URL && KV_REST_API_TOKEN
HasStandard(e) == e \in {"kv", "both"}

\* VERCEL_REST_API_URL && VERCEL_REST_API_TOKEN
HasCustom(e) == e \in {"custom", "both"}

\* hasKVConfig()
hasKVConfig(e) == HasStandard(e) \/ HasCustom(e)

\* lines 13-21, run once when the module is loaded
kvAtLoad(e, installed) == HasStandard(e) /\ installed

\* parseInt(v || '0', 10)
parseIntOrZero(v) ==
  IF v[1] = "absent" THEN 0
  ELSE IF v[1] = "digits" THEN v[2]
  ELSE NaN

\* count.toString()
toString(n) == IF n = NaN THEN <<"nan", 0>> ELSE <<"digits", n>>

\* JSON.stringify of a text
stringify(t) ==
  IF t[1] = "digits" THEN <<"quoted", t[2]>> ELSE <<"quotednan", 0>>

\* JSON.parse of a quoted text, any other text is kept
unquote(t) ==
  IF t[1] = "quoted" THEN <<"digits", t[2]>>
  ELSE IF t[1] = "quotednan" THEN <<"nan", 0>>
  ELSE t

\* what the medium can answer to a read and to a write on each route
ReadResps(route) ==
  IF route = "rest"
    THEN {"ok", "notfound", "badstatus", "unreachable", "notjson", "noresult"}
    ELSE {"ok", "unreachable"}

WriteResps(route) ==
  IF route = "rest" THEN {"ok", "badstatus", "unreachable"}
  ELSE {"ok", "unreachable"}

\* readFromFile without the ENOENT case
readFromFile_strict(f, resp) ==
  IF resp # "ok" THEN Err
  ELSE IF f[1] \in {"absent", "unparsable"} THEN Err
  ELSE IF f[1] = "nocount" THEN parseIntOrZero(<<"absent", 0>>)
  ELSE parseIntOrZero(<<"digits", f[2]>>)

\* readFromFile() on the content f when the read answers resp
readFromFile(f, resp) ==
  IF resp # "ok" THEN Err
  ELSE IF f[1] = "absent" THEN 0
  ELSE IF f[1] = "unparsable" THEN Err
  ELSE IF f[1] = "nocount" THEN parseIntOrZero(<<"absent", 0>>)
  ELSE parseIntOrZero(<<"digits", f[2]>>)

\* writeToFile(count): JSON.stringify({ count }) writes null for NaN
writeToFile(n) == IF n = NaN THEN <<"nocount", 0>> ELSE <<"doc", n>>

\* readFromKVSDK(): kv.get hands back the stored value, JSON-decoded
readFromKVSDK(v, resp) ==
  IF resp # "ok" THEN Err ELSE parseIntOrZero(unquote(v))

\* writeToKVSDK(count): kv.set(COUNTER_KEY, count.toString())
writeToKVSDK(n) == toString(n)

\* readFromKVREST(): 404 is 0, another bad status or a failed fetch or
\* response.json() throws, else parseInt(data.result || data.value || '0')
readFromKVREST(v, resp) ==
  IF resp = "notfound" THEN 0
  ELSE IF resp \in {"badstatus", "unreachable", "notjson"} THEN Err
  ELSE IF resp = "noresult" THEN parseIntOrZero(<<"absent", 0>>)
  ELSE parseIntOrZero(v)

\* writeToKVREST(count): the body sent is JSON.stringify(count.toString());
\* the store keeps it as it is or JSON-decoded
writeToKVREST(n, decoded) ==
  IF decoded THEN unquote(stringify(toString(n))) ELSE stringify(toString(n))

\* getCount() / setCount(): the access path taken
Route(e, k) ==
  IF ~hasKVConfig(e) THEN "file" ELSE IF k THEN "sdk" ELSE "rest"

\* getCount() on the route
readCount(route, f, v, resp) ==
  IF route = "file" THEN readFromFile(f, resp)
  ELSE IF route = "sdk" THEN readFromKVSDK(v, resp)
  ELSE readFromKVREST(v, resp)

\* current + 1 in JavaScript
plusOne(n) == IF n = NaN THEN NaN ELSE n + 1

NoCall ==
  [op |-> "none", arg |-> -1, env |-> "none", route |-> "none",
   resp |-> "none", wresp |-> "none", ret |-> -1]

\* ------------------------------------------------------------------ steps
InFlight == {r \in Reqs : pc[r] \notin {"idle", "done"}}

HandlerInit ==
  /\ clock \in Times
  /\ rateLimitMap = [i \in IPs |-> NoRecord]
  /\ stored \in {NoValue, 1}
  /\ stored0 = stored
  /\ overlapped = FALSE
  /\ pc = [r \in Reqs |-> "idle"]
  /\ ip = [r \in Reqs |-> "none"]
  /\ now = [r \in Reqs |-> -1]
  /\ seen = [r \in Reqs |-> NoRecord]
  /\ limited = [r \in Reqs |-> FALSE]
  /\ call = [r \in Reqs |-> "none"]
  /\ current = [r \in Reqs |-> -1]
  /\ count = [r \in Reqs |-> -1]
  /\ writes = [r \in Reqs |-> 0]
  /\ status = [r \in Reqs |-> 0]
  /\ body = [r \in Reqs |-> -1]

\* the storage layer as the handler model leaves it: local file backend, no
\* counter file yet, no storage call traced
StoreIdle ==
  /\ env = "none"
  /\ sdkInstalled = FALSE
  /\ kv = FALSE
  /\ counterFile = <<"absent", 0>>
  /\ kvValue = <<"absent", 0>>
  /\ bodyDecoded = FALSE
  /\ last = NoCall

Init == HandlerInit /\ StoreIdle

\* Date.now() moves on
Tick(t) ==
  /\ t > clock
  /\ clock' = t
  /\ UNCHANGED <<rateLimitMap, stored, stored0, overlapped, pc, ip, now, seen,
                 limited, call, current, count, writes, status, body>>
  /\ UNCHANGED storeVars

\* handler lines 93-94, then storage.getCount() / storage.increment() run up
\* to their first await: the backend read is issued
Start(r, i) ==
  /\ pc[r] = "idle"
  /\ IF r = 1 THEN TRUE ELSE pc[r - 1] # "idle"
  /\ Cardinality(InFlight) < MaxInFlight
  /\ LET d == shouldRateLimit(rateLimitMap, i, clock) IN
       /\ limited' = [limited EXCEPT ![r] = d.limited]
       /\ call' = [call EXCEPT ![r] = storageCall(d.limited)]
       /\ rateLimitMap' = d.map
  /\ ip' = [ip EXCEPT ![r] = i]
  /\ now' = [now EXCEPT ![r] = clock]
  /\ seen' = [seen EXCEPT ![r] = rateLimitMap[i]]
  /\ overlapped' = (overlapped \/ InFlight # {})
  /\ pc' = [pc EXCEPT ![r] = "read"]
  /\ UNCHANGED <<clock, stored, stored0, current, count, writes, status, body>>
  /\ UNCHANGED storeVars

\* a handler that renders the count the process first saw, not the one its
\* storage call returned
Send200_cached(r, c) ==
  /\ count' = [count EXCEPT ![r] = c]
  /\ status' = [status EXCEPT ![r] = 200]
  /\ body' = [body EXCEPT ![r] = getCount(stored0)]

\* lines 105-114: res.status(200).send(generateSVG(c)) for handler r
Send200(r, c) ==
  /\ count' = [count EXCEPT ![r] = c]
  /\ status' = [status EXCEPT ![r] = 200]
  /\ body' = [body EXCEPT ![r] = c]

\* lines 115-122: the catch block, res.status(500).send(generateSVG(0))
Send500(r) ==
  /\ status' = [status EXCEPT ![r] = 500]
  /\ body' = [body EXCEPT ![r] = 0]
  /\ UNCHANGED count

\* the read of getCount() completes.  A rate-limited handler has its count
\* and answers; an admitted one goes on inside increment() (lines 204-206)
\* and issues setCount(next)
ReadOK(r) ==
  /\ pc[r] = "read"
  /\ IF call[r] = "getCount"
       THEN /\ Send200(r, getCount(stored))
            /\ pc' = [pc EXCEPT ![r] = "done"]
            /\ UNCHANGED current
       ELSE /\ current' = [current EXCEPT ![r] = getCount(stored)]
            /\ pc' = [pc EXCEPT ![r] = "write"]
            /\ UNCHANGED <<count, status, body>>
  /\ UNCHANGED <<clock, rateLimitMap, stored, stored0, overlapped, ip, now,
                 seen, limited, call, writes>>
  /\ UNCHANGED storeVars

\* a catch block that also clears the admission map
ReadFail_clearsMap(r) ==
  /\ pc[r] = "read"
  /\ Send500(r)
  /\ pc' = [pc EXCEPT ![r] = "done"]
  /\ rateLimitMap' = [i \in IPs |-> NoRecord]
  /\ UNCHANGED <<clock, stored, stored0, overlapped, ip, now,
                 seen, limited, call, current, writes>>
  /\ UNCHANGED storeVars

\* the read throws (medium unreachable, bad status, unparsable content) and
\* the handler's catch block answers
ReadFail(r) ==
  /\ pc[r] = "read"
  /\ Send500(r)
  /\ pc' = [pc EXCEPT ![r] = "done"]
  /\ UNCHANGED <<clock, rateLimitMap, stored, stored0, overlapped, ip, now,
                 seen, limited, call, current, writes>>
  /\ UNCHANGED storeVars

\* the write of setCount(next) completes, increment() returns next (line 207)
\* and the handler answers
WriteOK(r) ==
  /\ pc[r] = "write"
  /\ stored' = setCount(stored, incrementNext(current[r]))
  /\ writes' = [writes EXCEPT ![r] = @ + 1]
  /\ Send200(r, incrementNext(current[r]))
  /\ pc' = [pc EXCEPT ![r] = "done"]
  /\ UNCHANGED <<clock, rateLimitMap, stored0, overlapped, ip, now, seen,
                 limited, call, current>>
  /\ UNCHANGED storeVars

\* the write throws, nothing is stored, and the catch block answers
WriteFail(r) ==
  /\ pc[r] = "write"
  /\ Send500(r)
  /\ pc' = [pc EXCEPT ![r] = "done"]
  /\ UNCHANGED <<clock, rateLimitMap, stored, stored0, overlapped, ip, now,
                 seen, limited, call, current, writes>>
  /\ UNCHANGED storeVars

\* ----------------------------------------- storage calls, one at a time

\* setCount(n) on the current route when the write answers wresp
StoreWrite(route, n, wresp) ==
  IF wresp # "ok" THEN UNCHANGED <<counterFile, kvValue>>
  ELSE IF route = "file"
    THEN counterFile' = writeToFile(n) /\ UNCHANGED kvValue
    ELSE /\ kvValue' = IF route = "sdk" THEN writeToKVSDK(n)
                       ELSE writeToKVREST(n, bodyDecoded)
         /\ UNCHANGED counterFile

\* the store has no value for the route: a 404 is answered only then
Absent(route) ==
  IF route = "file" THEN counterFile[1] = "absent" ELSE kvValue[1] = "absent"

ReadAllowed(route, resp) ==
  /\ resp \in ReadResps(route)
  /\ resp = "notfound" => Absent(route)

\* storage.getCount()
GetCountCall(resp) ==
  LET route == Route(env, kv) IN
  /\ ReadAllowed(route, resp)
  /\ last' = [op |-> "getCount", arg |-> -1, env |-> env, route |-> route,
              resp |-> resp, wresp |-> "none",
              ret |-> readCount(route, counterFile, kvValue, resp)]
  /\ UNCHANGED <<env, sdkInstalled, kv, counterFile, kvValue, bodyDecoded>>
  /\ UNCHANGED handlerVars

\* storage.setCount(n)
SetCountCall(n, wresp) ==
  LET route == Route(env, kv) IN
  /\ wresp \in WriteResps(route)
  /\ StoreWrite(route, n, wresp)
  /\ last' = [op |-> "setCount", arg |-> n, env |-> env, route |-> route,
              resp |-> "none", wresp |-> wresp,
              ret |-> IF wresp = "ok" THEN 0 ELSE Err]
  /\ UNCHANGED <<env, sdkInstalled, kv, bodyDecoded>>
  /\ UNCHANGED handlerVars

\* storage.increment() with no other call in between
IncrementCall(resp, wresp) ==
  LET route == Route(env, kv)
      cur == readCount(route, counterFile, kvValue, resp)
      next == plusOne(cur)
  IN
  /\ ReadAllowed(route, resp)
  /\ wresp \in WriteResps(route)
  /\ cur < MaxCount
  /\ IF cur = Err
       THEN /\ UNCHANGED <<counterFile, kvValue>>
            /\ last' = [op |-> "increment", arg |-> -1, env |-> env,
                        route |-> route, resp |-> resp, wresp |-> "none",
                        ret |-> Err]
       ELSE /\ StoreWrite(route, next, wresp)
            /\ last' = [op |-> "increment", arg |-> -1, env |-> env,
                        route |-> route, resp |-> resp, wresp |-> wresp,
                        ret |-> IF wresp = "ok" THEN next ELSE Err]
  /\ UNCHANGED <<env, sdkInstalled, kv, bodyDecoded>>
  /\ UNCHANGED handlerVars

\* process.env changes between two calls
SetEnv(e) ==
  /\ e # env
  /\ env' = e
  /\ UNCHANGED <<sdkInstalled, kv, counterFile, kvValue, bodyDecoded, last>>
  /\ UNCHANGED handlerVars

\* the module is loaded in some environment, on some persisted state
StoreInit ==
  /\ HandlerInit /\ clock = 0 /\ stored = NoValue
  /\ env \in Envs
  /\ sdkInstalled \in BOOLEAN
  /\ kv = kvAtLoad(env, sdkInstalled)
  /\ counterFile \in {<<"absent", 0>>, <<"doc", 0>>, <<"doc", 1>>,
                      <<"nocount", 0>>, <<"unparsable", 0>>}
  /\ kvValue \in {<<"absent", 0>>, <<"digits", 1>>}
  /\ bodyDecoded \in BOOLEAN
  /\ last = NoCall

StoreNext ==
  \/ \E resp \in ReadResps("rest") : GetCountCall(resp)
  \/ \E n \in 0..MaxCount, wresp \in WriteResps("rest") : SetCountCall(n, wresp)
  \/ \E resp \in ReadResps("rest"), wresp \in WriteResps("rest") :
       IncrementCall(resp, wresp)
  \/ \E e \in Envs : SetEnv(e)

SpecStore == StoreInit /\ [][StoreNext]_vars

Next ==
  \/ \E t \in Times : Tick(t)
  \/ \E r \in Reqs, i \in IPs : Start(r, i)
  \/ \E r \in Reqs : ReadOK(r)
  \/ \E r \in Reqs : ReadFail(r)
  \/ \E r \in Reqs : WriteOK(r)
  \/ \E r \in Reqs : WriteFail(r)

Spec == Init /\ [][Next]_vars

\* ----------------------------------------------------------------- claims
Started(r) == pc[r] # "idle"

\* the step in which handler r runs shouldRateLimit
Starts(r) == pc[r] = "idle" /\ pc'[r] = "read"

Abs(n) == IF n < 0 THEN -n ELSE n

\* C1: any two admitted requests of one identifier have timestamps at least
\* RATE_LIMIT_WINDOW apart, for every timestamp value, 0 included.
C1_OneAdmissionPerWindow ==
  \A r1, r2 \in Reqs :
    (/\ r1 # r2
     /\ Started(r1) /\ Started(r2)
     /\ ip[r1] = ip[r2]
     /\ ~limited[r1] /\ ~limited[r2])
    => Abs(now[r1] - now[r2]) >= RATE_LIMIT_WINDOW

\* C2: a request arriving at t from an identifier whose record t0 >= 0 has
\* t - t0 < RATE_LIMIT_WINDOW is suppressed and leaves the record at t0.
C2_SuppressedInsideWindow ==
  [][\A r \in Reqs :
       Starts(r) =>
         LET t0 == rateLimitMap[ip'[r]] IN
         (t0 # NoRecord /\ clock - t0 < RATE_LIMIT_WINDOW)
         => (limited'[r] /\ rateLimitMap'[ip'[r]] = t0)]_vars

\* C3: from a fresh state, three requests of "1.2.3.4" handled one after
\* another at 0 s, 10 s and 70 s are answered 1, 1 and 2, and 2 is stored.
C3_EndToEnd ==
  (/\ stored0 = NoValue
   /\ ~overlapped
   /\ \A r \in 1..3 : pc[r] = "done" /\ ip[r] = "1.2.3.4" /\ status[r] = 200
   /\ \A r \in Reqs \ (1..3) : pc[r] = "idle"
   /\ now[1] = 0 /\ now[2] = 10000 /\ now[3] = 70000)
  => (body[1] = 1 /\ body[2] = 1 /\ body[3] = 2 /\ stored = 2)

\* C4: a request from an identifier without a record is admitted, and the
\* map then holds the time of that request for the identifier.
C4_FirstRequestAdmitted ==
  [][\A r \in Reqs :
       (Starts(r) /\ rateLimitMap[ip'[r]] = NoRecord)
       => (~limited'[r] /\ rateLimitMap'[ip'[r]] = clock)]_vars

C4_Witness ==
  \E r \in Reqs :
    /\ Started(r) /\ seen[r] = NoRecord /\ ~limited[r]
    /\ rateLimitMap[ip[r]] = now[r]

\* C5: a request arriving at t from an identifier whose record t0 has
\* t - t0 >= RATE_LIMIT_WINDOW, the boundary included, is admitted and the
\* record becomes t.
C5_AdmittedAfterWindow ==
  [][\A r \in Reqs :
       Starts(r) =>
         LET t0 == rateLimitMap[ip'[r]] IN
         (t0 # NoRecord /\ clock - t0 >= RATE_LIMIT_WINDOW)
         => (~limited'[r] /\ rateLimitMap'[ip'[r]] = clock)]_vars

\* the boundary case on a record the window test, not the falsy test, decides
C5_Witness ==
  \E r \in Reqs :
    /\ Started(r) /\ seen[r] > 0
    /\ now[r] - seen[r] = RATE_LIMIT_WINDOW
    /\ ~limited[r] /\ rateLimitMap[ip[r]] = now[r]

\* C6: a rate-limited request only reads (getCount), writes nothing, leaves
\* the stored counter as it is and is answered the stored count; an admitted
\* request calls increment, which writes once.
C6_MutateOnlyWhenAdmitted ==
  /\ [](\A r \in Reqs :
          Started(r) =>
            /\ limited[r] =>
                 (call[r] = "getCount" /\ writes[r] = 0 /\ pc[r] # "write")
            /\ ~limited[r] =>
                 /\ call[r] = "increment"
                 /\ writes[r] <= 1
                 /\ status[r] = 200 => writes[r] = 1)
  /\ [][\A r \in Reqs :
          (limited'[r] /\ pc'[r] # pc[r]) =>
            /\ stored' = stored
            /\ status'[r] = 200 => body'[r] = getCount(stored)]_vars

C6_Witness ==
  \E r1, r2 \in Reqs :
    /\ limited[r1] /\ status[r1] = 200 /\ writes[r1] = 0
    /\ body[r1] = getCount(stored) /\ stored # NoValue
    /\ ~limited[r2] /\ status[r2] = 200 /\ writes[r2] = 1

\* C7: every write to the stored counter stores a value greater than or
\* equal to the value stored just before it, interleaved increments included.
C7_NeverDecremented == [][getCount(stored') >= getCount(stored)]_vars

\* C8: increment() is a read followed by a write of the read value plus one:
\* a completing increment stores and returns current + 1 whatever has been
\* written since its read, so two increments that read the same value both
\* return it plus one (the witness is the lost update).
C8_IncrementNotAtomic ==
  /\ [](\A r1, r2 \in Reqs :
          (/\ r1 # r2
           /\ call[r1] = "increment" /\ status[r1] = 200
           /\ call[r2] = "increment" /\ status[r2] = 200
           /\ current[r1] = current[r2])
          => (count[r1] = current[r1] + 1 /\ count[r2] = current[r1] + 1))
  /\ [][\A r \in Reqs :
          (pc[r] = "write" /\ pc'[r] = "done" /\ status'[r] = 200)
          => (stored' = current[r] + 1 /\ count'[r] = current[r] + 1)]_vars

\* two completed increments, the only writers, raised the counter by one
C8_Witness ==
  \E r1, r2 \in Reqs :
    /\ r1 # r2
    /\ call[r1] = "increment" /\ status[r1] = 200 /\ writes[r1] = 1
    /\ call[r2] = "increment" /\ status[r2] = 200 /\ writes[r2] = 1
    /\ current[r1] = getCount(stored0) /\ current[r2] = getCount(stored0)
    /\ count[r1] = getCount(stored0) + 1 /\ count[r2] = getCount(stored0) + 1
    /\ \A r \in Reqs \ {r1, r2} : writes[r] = 0
    /\ stored = getCount(stored0) + 1

\* handler r2 can start for the identifier of r1 in this tick, be admitted,
\* and have read the record that r1 read
RaceAdmit(r2, r1) ==
  Start(r2, ip[r1]) /\ ~limited'[r2] /\ seen'[r2] = seen[r1]

C10_IdentifiersIndependent ==
  /\ [](\A a, b \in IPs :
          a # b =>
            LET d == shouldRateLimit(rateLimitMap, a, clock) IN
            /\ d.map[b] = rateLimitMap[b]
            /\ shouldRateLimit(d.map, b, clock).limited
                 = shouldRateLimit(rateLimitMap, b, clock).limited
            /\ shouldRateLimit(d.map, b, clock).map[b]
                 = shouldRateLimit(rateLimitMap, b, clock).map[b])
  /\ [][\A b \in IPs :
          rateLimitMap'[b] # rateLimitMap[b]
          => \E r \in Reqs : Starts(r) /\ ip'[r] = b]_vars

\* at one instant a request of one identifier is suppressed and a request of
\* another identifier is admitted
C10_Witness ==
  \E r1, r2 \in Reqs :
    /\ Started(r1) /\ Started(r2)
    /\ ip[r1] # ip[r2] /\ now[r1] = now[r2]
    /\ r1 < r2 /\ limited[r1] /\ ~limited[r2]

\* requests of identifier i admitted so far
AdmittedOf(i) == {r \in Reqs : Started(r) /\ ip[r] = i /\ ~limited[r]}

\* timestamp of the last admitted request of i (requests start in index order)
LastAdmitted(i) ==
  IF AdmittedOf(i) = {} THEN NoRecord
  ELSE now[CHOOSE r \in AdmittedOf(i) : \A q \in AdmittedOf(i) : q <= r]

\* everything the model keeps for handler r
Local(r) ==
  <<pc[r], ip[r], now[r], seen[r], limited[r], call[r], current[r], count[r],
    writes[r], status[r], body[r]>>

\* C16: a failing storage call changes nothing but the failing request: the
\* admission map stays the map from identifier to the time of its last
\* admitted request, the records, the stored counter and the other handlers
\* are untouched, and the decision any identifier gets next is the same as
\* before the failure.
C16_FailureIsolation ==
  /\ [](\A i \in IPs : rateLimitMap[i] = LastAdmitted(i))
  /\ [][\A r \in Reqs :
          (status[r] = 0 /\ status'[r] = 500) =>
            /\ rateLimitMap' = rateLimitMap
            /\ stored' = stored
            /\ \A q \in Reqs \ {r} : Local(q)' = Local(q)
            /\ \A i \in IPs :
                 shouldRateLimit(rateLimitMap', i, clock')
                   = shouldRateLimit(rateLimitMap, i, clock)]_vars

\* a request failed, its record is kept, and a later request of another
\* identifier was admitted and served
C16_Witness ==
  \E r1, r2 \in Reqs :
    /\ r1 < r2 /\ status[r1] = 500 /\ ~limited[r1]
    /\ rateLimitMap[ip[r1]] = now[r1]
    /\ ip[r2] # ip[r1] /\ ~limited[r2] /\ status[r2] = 200
    /\ body[r2] = getCount(stored0) + 1

\* requests admitted so far
Admitted == {r \in Reqs : Started(r) /\ ~limited[r]}

\* C18: starting from an absent counter, the stored counter and every count
\* answered to a client are at most the number of requests admitted so far.
C18_NeverOverCounts ==
  stored0 = NoValue =>
    /\ getCount(stored) <= Cardinality(Admitted)
    /\ \A r \in Reqs : status[r] # 0 => body[r] <= Cardinality(Admitted)

\* the bound is reached: every admitted request was counted and answered
C18_Witness ==
  /\ stored0 = NoValue
  /\ Cardinality(Admitted) >= 2
  /\ stored = Cardinality(Admitted)
  /\ \E r \in Reqs : status[r] = 200 /\ body[r] = Cardinality(Admitted)

\* C19: when the increment of an admitted request fails, nothing was written
\* for it, its timestamp stays recorded, and every further request of the
\* identifier within RATE_LIMIT_WINDOW of it is suppressed.
C19_AdmissionKeptOnFailure ==
  \A r1 \in Reqs :
    (Started(r1) /\ ~limited[r1] /\ status[r1] = 500) =>
      /\ writes[r1] = 0
      /\ rateLimitMap[ip[r1]] >= now[r1]
      /\ \A r2 \in Reqs :
           (/\ r2 > r1 /\ Started(r2) /\ ip[r2] = ip[r1]
            /\ now[r2] - now[r1] < RATE_LIMIT_WINDOW)
           => limited[r2]

\* C20: a request has a response exactly when its storage call has completed,
\* the response is sent once, a 200 carries the count its own storage call
\* returned (the value read, or the value read plus one for an increment) and
\* a 500 carries 0.
C20_OneResponse ==
  /\ [](\A r \in Reqs :
          /\ (pc[r] = "done") = (status[r] \in {200, 500})
          /\ pc[r] # "done" => (status[r] = 0 /\ body[r] = -1)
          /\ status[r] = 500 => body[r] = 0
          /\ status[r] = 200 =>
               /\ body[r] = count[r]
               /\ call[r] = "increment" => body[r] = current[r] + 1)
  /\ [][\A r \in Reqs :
          /\ status[r] # 0 => (status'[r] = status[r] /\ body'[r] = body[r])
          /\ (status[r] = 0 /\ status'[r] = 200 /\ call[r] = "getCount")
             => body'[r] = getCount(stored)]_vars

\* one request answered 200 with a count, another answered 500 with 0
C20_Witness ==
  \E r1, r2 \in Reqs :
    /\ status[r1] = 200 /\ body[r1] = count[r1] /\ body[r1] >= 2
    /\ status[r2] = 500 /\ body[r2] = 0

\* the backend of the route holds a counter value, or nothing yet
HoldsCount(route, f, v) ==
  IF route = "file" THEN f[1] \in {"absent", "doc"}
  ELSE v[1] \in {"absent", "digits", "quoted"}

\* the counter value the backend of the route holds, 0 when it holds nothing
CountIn(route, f, v) ==
  IF route = "file" THEN (IF f[1] = "absent" THEN 0 ELSE f[2])
  ELSE (IF v[1] = "absent" THEN 0 ELSE v[2])

\* the medium answered the read truthfully
ReadAnswered(resp) == resp \in {"ok", "notfound"}

\* C11: an increment() that runs alone and meets no failure returns the
\* stored value plus one and leaves that value stored, so k increments on a
\* fresh backend return 1, 2, ..., k.
C11_SequentialIncrement ==
  [][\A resp \in ReadResps("rest"), wresp \in WriteResps("rest") :
       (/\ IncrementCall(resp, wresp)
        /\ ReadAnswered(resp) /\ wresp = "ok"
        /\ HoldsCount(Route(env, kv), counterFile, kvValue))
       => /\ last'.ret = CountIn(Route(env, kv), counterFile, kvValue) + 1
          /\ HoldsCount(Route(env, kv), counterFile', kvValue')
          /\ CountIn(Route(env, kv), counterFile', kvValue') = last'.ret]_vars

\* both routes lead to the local file, or both to the durable store
SameBackend(r1, r2) == (r1 = "file") = (r2 = "file")

\* C12: after a successful setCount(n), n >= 0, the next getCount() on the
\* same backend, answered by the medium, returns n, on the file backend and on
\* the durable store.
C12_RoundTrip ==
  [][\A resp \in ReadResps("rest") :
       (/\ GetCountCall(resp)
        /\ ReadAnswered(resp)
        /\ last.op = "setCount" /\ last.ret = 0
        /\ SameBackend(last.route, Route(env, kv)))
       => last'.ret = last.arg]_vars

\* C13: getCount() on a backend that holds no value (no counter file; a 404
\* or an empty result from the durable store) returns 0 as a success, and no
\* getCount() creates or changes stored state, on every route.
C13_ZeroDefault ==
  /\ [](\A route \in {"file", "sdk", "rest"} :
          (/\ last.op = "getCount" /\ last.route = route
           /\ ReadAnswered(last.resp)
           /\ Absent(route))
          => last.ret = 0)
  /\ [][\A resp \in ReadResps("rest") :
          GetCountCall(resp)
          => (counterFile' = counterFile /\ kvValue' = kvValue)]_vars

\* the zero default was returned for a 404 of the durable store, no counter
\* file existing either, and nothing was created
C13_Witness ==
  /\ last.op = "getCount" /\ last.ret = 0 /\ ReadAnswered(last.resp)
  /\ Absent(last.route)
  /\ counterFile[1] = "absent" /\ kvValue[1] = "absent"
  /\ last.route = "rest" /\ last.resp = "notfound"

\* C14: getCount() on the file backend fails, and never returns 0, for every
\* counter.json that is not a document with an integer count: unparsable
\* text, or a parsable document without a valid count.
C14_MalformedFileFails ==
  (/\ last.op = "getCount" /\ last.route = "file" /\ last.resp = "ok"
   /\ counterFile[1] \in {"unparsable", "nocount"})
  => last.ret = Err

\* the answers of the durable store that are failures: unreachable, a status
\* that is neither 2xx nor 404, a 2xx whose body is not JSON or has no
\* result / value
FailureResps == {"unreachable", "badstatus", "notjson", "noresult"}

\* C15: on such a failure of the durable store getCount() throws instead of
\* returning 0, and increment() throws without writing.
C15_FailuresPropagate ==
  (/\ last.op \in {"getCount", "increment"}
   /\ last.route \in {"sdk", "rest"}
   /\ last.resp \in FailureResps)
  => (last.ret = Err /\ last.wresp = "none")

\* the route the configuration present at a call asks for: the durable store
\* iff a URL+token pair is present, over the SDK iff the pair the SDK reads is
\* present and the SDK can be loaded
RouteAtCall(e, installed) ==
  IF ~hasKVConfig(e) THEN "file"
  ELSE IF kvAtLoad(e, installed) THEN "sdk" ELSE "rest"

\* C17: every storage call takes the route the environment present at that
\* call asks for, backend and access method, whatever the environment was
\* when the module was loaded.
C17_RouteFromEnvAtCall ==
  last.op # "none" => last.route = RouteAtCall(last.env, sdkInstalled)

TypeOK ==
  /\ clock \in Times
  /\ rateLimitMap \in [IPs -> Times \cup {NoRecord}]
  /\ stored \in {NoValue} \cup (0..(NReq + 1))
  /\ pc \in [Reqs -> {"idle", "read", "write", "done"}]
====
